---- MODULE Spec2Model ----
(***************************************************************************)
(* Model of proxqp_balancer.py: command-line parsing, the three solver     *)
(* workspaces (ProxQP, QPALM, HPIPM) and the control loop of balance().     *)
(*                                                                         *)
(* Numbers.  Velocities are fixed-point integers counted in quanta of      *)
(* 1/Scale m/s, so 1.0 is Scale.  Accelerations are counted in quanta per   *)
(* second squared and times in milliseconds.  A product or a quotient that *)
(* does not fall on the grid is rounded to the nearest quantum, ties to     *)
(* even, as a floating-point operation rounds its exact result.            *)
(*                                                                         *)
(* The QP solvers, the MPC problem builder and the gym environment are     *)
(* libraries: a solve ends with any status of the backend and any first    *)
(* input, an environment step returns any observation, contact flag and    *)
(* terminated/truncated signals.                                           *)
(*                                                                         *)
(* Spec is a run of the program.  WorkspaceSpec builds a workspace of any   *)
(* class from any small MPCQP and solves it repeatedly; FilterSpec applies  *)
(* the command update of a cycle without floor contact again and again.    *)
(***************************************************************************)
EXTENDS Integers, FiniteSets, Sequences, TLC

\* ------------------------------------------------------------------ bounds

\* Velocity quanta per 1.0 m/s.
Scale == 40
\* Largest step budget (nb_env_steps) explored; 0 is the indefinite run.
MaxSteps == 2
\* Cycles explored of an indefinite run (nb_env_steps = 0).
MaxCycles == 2
\* Timesteps of the MPC horizon (nb_mpc_timesteps) of balance().
Horizon == 2

\* --------------------------------------------------------------- constants

\* gym.make(..., frequency=200.0): cycles per second.
Frequency == 200
\* low_pass_filter(..., cutoff_period=0.1, ...), in milliseconds.
CutoffPeriodMs == 100

\* env.unwrapped.dt, in milliseconds.
DtMs == 1000 \div Frequency
\* clamp_and_warn(..., lower=-1.0, upper=+1.0, ...).
Lower == -Scale
Upper == Scale

Backends == {"proxqp", "hpipm", "qpalm"}
\* Outcomes of the three imports explored: none succeeds, exactly one, all.
AvailableSets == {{}, Backends} \cup {{b} : b \in Backends}

\* Statuses a backend can end a solve with; the first of each is "solved".
PROXQP_SOLVED == "PROXQP_SOLVED"
ProxQPStatuses == {PROXQP_SOLVED, "PROXQP_MAX_ITER_REACHED",
                   "PROXQP_SOLVED_CLOSEST_PRIMAL_FEASIBLE"}
QPALMStatuses == {"solved", "maximum iterations reached", "primal infeasible"}
HPIPMStatuses == {0, 1, 2}

\* The acceleration that adds one velocity quantum in one cycle (a * dt / 2).
AccelQuantum == 2000 \div DtMs
\* First control inputs a solve can return: nothing, one quantum, half the
\* velocity range, and more than the velocity range in either direction.
AccelSet == {k * AccelQuantum : k \in {0, 1, Scale \div 2, Scale + 5, -(Scale + 5)}}
\* Base pitch readings: the neutral pitch and another one.
PitchSet == {0, 1}

\* ----------------------------------------------------------------- numbers

Abs(x) == IF x < 0 THEN -x ELSE x

\* a / b rounded to the nearest integer, ties to even (b > 0).
RoundDiv(a, b) ==
    LET q == a \div b
        r == a % b
    IN  IF 2 * r < b THEN q
        ELSE IF 2 * r > b THEN q + 1
        ELSE IF q % 2 = 0 THEN q ELSE q + 1

\* ------------------------------------------------- upkie.utils (call sites)

\* A filter that moves the output away from the input.
low_pass_filter_away(prev_output, cutoff_period, new_input, dt) ==
    prev_output - RoundDiv((new_input - prev_output) * dt, cutoff_period)

\* upkie.utils.filters.low_pass_filter: the output moves from prev_output
\* towards new_input by the fraction dt / cutoff_period of their difference.
low_pass_filter(prev_output, cutoff_period, new_input, dt) ==
    prev_output + RoundDiv((new_input - prev_output) * dt, cutoff_period)

\* A clamp that forgets the upper bound.
clamp_and_warn_lower_only(value, lower, upper) ==
    IF value < lower THEN <<lower, TRUE>> ELSE <<value, FALSE>>

\* A clamp that also clamps, and warns about, a value on a bound.
clamp_and_warn_strict(value, lower, upper) ==
    IF value >= upper THEN <<upper, TRUE>>
    ELSE IF value <= lower THEN <<lower, TRUE>>
    ELSE <<value, FALSE>>

\* upkie.utils.clamp.clamp_and_warn: the value, or the bound it exceeds; the
\* second component tells whether a warning is logged.
clamp_and_warn(value, lower, upper) ==
    IF value > upper THEN <<upper, TRUE>>
    ELSE IF value < lower THEN <<lower, TRUE>>
    ELSE <<value, FALSE>>

\* commanded_velocity + commanded_accel * env.unwrapped.dt / 2.0
Integrate(velocity, accel, dt) == velocity + RoundDiv(accel * dt, 2 * 1000)

\* ------------------------------------------------------------ command line

\* Choices that offer every backend, imported or not.
Choices_all(available) == <<"proxqp", "hpipm", "qpalm">>

\* choices of --solver: the backends whose import succeeded, in this order.
Choices(available) ==
    (IF "proxqp" \in available THEN <<"proxqp">> ELSE <<>>)
    \o (IF "hpipm" \in available THEN <<"hpipm">> ELSE <<>>)
    \o (IF "qpalm" \in available THEN <<"qpalm">> ELSE <<>>)

ChoiceSet(available) ==
    {Choices(available)[i] : i \in 1..Len(Choices(available))}

\* -------------------------------------------------------------- workspaces
\* A backend solver is a record of what the library keeps between calls: the
\* dimensions and data it was built with, the cost vector it was last given,
\* how often solve() ran (nb_solves) and the status and decision vector of
\* the last solve.  A decision vector is modelled by its first control input
\* and its length.  The outcome of a solve (status, x, dual y) is the
\* library's: it is an argument of the operators below.

\* Python's None.
None == [is_none |-> TRUE]

\* The workspace before balance() has built one.
NoWorkspace == [kind |-> "none"]

\* An MPCQP with n decision variables (P is n x n, q has n entries) and the
\* inequality rows G x <= h.  A row of G is named by a label; q is named by
\* the base pitch of the state it encodes.
MPCQP(n, G, h, q) == [n |-> n, G |-> G, h |-> h, q |-> q]

\* The MPCQP balance() builds from the pendulum's MPC problem: one input per
\* timestep and, per input, the two rows +u <= max and -u <= max.
PendulumQP(nb_timesteps, q) ==
    MPCQP(nb_timesteps, [i \in 1..(2 * nb_timesteps) |-> i],
          [i \in 1..(2 * nb_timesteps) |-> 1], q)

\* MPCQP.update_cost_vector: only q changes.
update_cost_vector(a_mpc_qp, q) == [a_mpc_qp EXCEPT !.q = q]

\* array[first::2]: every second entry, from the (0-based) index first on.
EverySecond(array, first) ==
    [i \in 1..((Len(array) - first + 1) \div 2) |-> array[first + 2 * i - 1]]

\* -array
Negated(array) == [i \in 1..Len(array) |-> -array[i]]

\* An HPIPM solve that returns the multipliers of the rows, not the inputs.
HPIPMWorkspace_solve_multipliers(self, a_mpc_qp, status, x) ==
    LET solver == [self.solver EXCEPT !.nb_solves = @ + 1, !.status = status]
        sol == [self.sol EXCEPT !.v = x]
    IN  [workspace |-> [self EXCEPT !.qp.g = a_mpc_qp.q, !.sol = sol,
                                    !.solver = solver],
         qpsol |-> [found |-> (solver.status = 0), x |-> sol.v,
                    size |-> self.dim.ng]]

\* A QPALM solve that stores the seed before it solves.
QPALMWorkspace_solve_early_seed(self, a_mpc_qp, status, x, y) ==
    LET seeded == IF ~self.solution.is_none
                    THEN [self.solver EXCEPT !.q = a_mpc_qp.q,
                                             !.warm = self.solution]
                    ELSE [self.solver EXCEPT !.q = a_mpc_qp.q]
        solver == [seeded EXCEPT !.nb_solves = @ + 1, !.status = status,
                                 !.x = x, !.y = y]
    IN  [workspace |-> [self EXCEPT !.solver = solver,
                                    !.solution = [is_none |-> FALSE,
                                                  x |-> self.solver.x,
                                                  y |-> self.solver.y]],
         qpsol |-> [found |-> (solver.status = "solved"), x |-> solver.x,
                    size |-> solver.n]]

\* ProxQPWorkspace.__init__, up to the call of solver.init: the dimensions of
\* proxqp.dense.QP(n, n_eq, n_in), where n_in is half the number of rows, and
\* the box form, which takes the even rows of G and h as C and u and the
\* negated odd entries of h as l.
ProxQPWorkspace_model(a_mpc_qp) ==
    [dim |-> a_mpc_qp.n, n_eq |-> 0, n_in |-> Len(a_mpc_qp.h) \div 2,
     C |-> EverySecond(a_mpc_qp.G, 0),
     l |-> Negated(EverySecond(a_mpc_qp.h, 1)),
     u |-> EverySecond(a_mpc_qp.h, 0)]

\* ProxQPWorkspace.__init__: init() with the box form and the first cost
\* vector, then one solve().
ProxQPWorkspace_init(a_mpc_qp, status, x) ==
    [kind |-> "ProxQPWorkspace",
     solver |-> [model |-> ProxQPWorkspace_model(a_mpc_qp),
                 g |-> a_mpc_qp.q, nb_solves |-> 1, status |-> status, x |-> x]]

\* A ProxQP solve that also counts the closest primal-feasible point as found.
ProxQPWorkspace_solve_closest(self, a_mpc_qp, status, x) ==
    LET solver == [self.solver EXCEPT !.g = a_mpc_qp.q, !.nb_solves = @ + 1,
                                      !.status = status, !.x = x]
    IN  [workspace |-> [self EXCEPT !.solver = solver],
         qpsol |-> [found |-> (solver.status # "PROXQP_MAX_ITER_REACHED"),
                    x |-> solver.x, size |-> solver.model.dim]]

\* ProxQPWorkspace.solve: update(g=q), solve(), found iff PROXQP_SOLVED, x is
\* the solver's result.
ProxQPWorkspace_solve(self, a_mpc_qp, status, x) ==
    LET solver == [self.solver EXCEPT !.g = a_mpc_qp.q, !.nb_solves = @ + 1,
                                      !.status = status, !.x = x]
    IN  [workspace |-> [self EXCEPT !.solver = solver],
         qpsol |-> [found |-> (solver.status = PROXQP_SOLVED), x |-> solver.x,
                    size |-> solver.model.dim]]

\* A QPALM constructor that does not solve.
QPALMWorkspace_init_no_solve(a_mpc_qp, status, x, y) ==
    [kind |-> "QPALMWorkspace",
     solver |-> [n |-> a_mpc_qp.n, m |-> Len(a_mpc_qp.G), A |-> a_mpc_qp.G,
                 bmax |-> a_mpc_qp.h, bmin |-> Negated(a_mpc_qp.h),
                 q |-> a_mpc_qp.q, nb_solves |-> 0, status |-> status,
                 x |-> x, y |-> y, warm |-> None],
     solution |-> None]

\* QPALMWorkspace.__init__: Data(n, m) with A = G and bmin = -h <= A x <= h,
\* Solver(data), one solve(), self.solution = None.
QPALMWorkspace_init(a_mpc_qp, status, x, y) ==
    [kind |-> "QPALMWorkspace",
     solver |-> [n |-> a_mpc_qp.n, m |-> Len(a_mpc_qp.G), A |-> a_mpc_qp.G,
                 bmax |-> a_mpc_qp.h, bmin |-> Negated(a_mpc_qp.h),
                 q |-> a_mpc_qp.q, nb_solves |-> 1, status |-> status,
                 x |-> x, y |-> y, warm |-> None],
     solution |-> None]

\* QPALMWorkspace.solve: update_q, warm_start from self.solution unless it is
\* None, solve(), store the new x and y, found iff status == "solved".
QPALMWorkspace_solve(self, a_mpc_qp, status, x, y) ==
    LET seeded == IF ~self.solution.is_none
                    THEN [self.solver EXCEPT !.q = a_mpc_qp.q,
                                             !.warm = self.solution]
                    ELSE [self.solver EXCEPT !.q = a_mpc_qp.q]
        solver == [seeded EXCEPT !.nb_solves = @ + 1, !.status = status,
                                 !.x = x, !.y = y]
    IN  [workspace |-> [self EXCEPT !.solver = solver,
                                    !.solution = [is_none |-> FALSE,
                                                  x |-> solver.x, y |-> solver.y]],
         qpsol |-> [found |-> (solver.status = "solved"), x |-> solver.x,
                    size |-> solver.n]]

\* HPIPMWorkspace.__init__: dimensions (nv, ne, ng, nb), data, arguments
\* (warm_start = 2), an empty solution object and a solver; solver.solve is
\* not called.
HPIPMWorkspace_init(a_mpc_qp) ==
    [kind |-> "HPIPMWorkspace",
     dim |-> [nv |-> a_mpc_qp.n, ne |-> 0, ng |-> Len(a_mpc_qp.h), nb |-> 0],
     qp |-> [g |-> a_mpc_qp.q, C |-> a_mpc_qp.G, ug |-> a_mpc_qp.h],
     sol |-> [v |-> 0],
     solver |-> [warm_start |-> 2, nb_solves |-> 0, status |-> 0]]

\* HPIPMWorkspace.solve: qp.set("g", q), solve(qp, sol), found iff status == 0,
\* x is the "v" of the solution object.
HPIPMWorkspace_solve(self, a_mpc_qp, status, x) ==
    LET solver == [self.solver EXCEPT !.nb_solves = @ + 1, !.status = status]
        sol == [self.sol EXCEPT !.v = x]
    IN  [workspace |-> [self EXCEPT !.qp.g = a_mpc_qp.q, !.sol = sol,
                                    !.solver = solver],
         qpsol |-> [found |-> (solver.status = 0), x |-> sol.v,
                    size |-> self.dim.nv]]

\* The statuses the backend of a workspace can report.
StatusesOf(kind) ==
    IF kind = "ProxQPWorkspace" THEN ProxQPStatuses
    ELSE IF kind = "QPALMWorkspace" THEN QPALMStatuses
    ELSE HPIPMStatuses

\* The class balance() instantiates for args.solver.
WorkspaceClass(solver) ==
    IF solver = "qpalm" THEN "QPALMWorkspace"
    ELSE IF solver = "hpipm" THEN "HPIPMWorkspace"
    ELSE "ProxQPWorkspace"

\* workspace.solve(mpc_qp): dispatch on the class of the workspace.
Workspace_solve(self, a_mpc_qp, status, x, y) ==
    IF self.kind = "QPALMWorkspace"
      THEN QPALMWorkspace_solve(self, a_mpc_qp, status, x, y)
    ELSE IF self.kind = "HPIPMWorkspace"
      THEN HPIPMWorkspace_solve(self, a_mpc_qp, status, x)
    ELSE ProxQPWorkspace_solve(self, a_mpc_qp, status, x)

\* qpmpc.Plan(mpc_problem, qpsol): the inputs are kept only of a found
\* solution; is_empty tells that there are none.
Plan(qpsol) ==
    IF qpsol.found THEN [is_empty |-> FALSE, first_input |-> qpsol.x]
    ELSE [is_empty |-> TRUE, first_input |-> 0]

\* ------------------------------------------------------------ control loop

\* The two tests in the other order: the plan first, then the contact.
Branch_plan_first(floor_contact, a_plan) ==
    IF a_plan.is_empty THEN "hold"
    ELSE IF ~floor_contact THEN "decelerate"
    ELSE "actuate"

\* The branch of the command update: the contact test comes first, then the
\* test of the plan.
Branch(floor_contact, a_plan) ==
    IF ~floor_contact THEN "decelerate"
    ELSE IF a_plan.is_empty THEN "hold"
    ELSE "actuate"

\* A command update whose deceleration filters towards the first input of the
\* plan instead of zero.
UpdatedCommand_filter_plan(velocity, floor_contact, a_plan) ==
    IF Branch(floor_contact, a_plan) = "decelerate"
      THEN <<low_pass_filter(velocity, CutoffPeriodMs, a_plan.first_input, DtMs), FALSE>>
    ELSE IF Branch(floor_contact, a_plan) = "hold"
      THEN <<velocity, FALSE>>
    ELSE clamp_and_warn(Integrate(velocity, a_plan.first_input, DtMs), Lower, Upper)

\* A command update that decelerates when the plan is empty.
UpdatedCommand_hold_decelerates(velocity, floor_contact, a_plan) ==
    IF Branch(floor_contact, a_plan) \in {"decelerate", "hold"}
      THEN <<low_pass_filter(velocity, CutoffPeriodMs, 0, DtMs), FALSE>>
    ELSE clamp_and_warn(Integrate(velocity, a_plan.first_input, DtMs), Lower, Upper)

\* The commanded velocity and the clamp warning the command update leaves.
UpdatedCommand(velocity, floor_contact, a_plan) ==
    IF Branch(floor_contact, a_plan) = "decelerate"
      THEN <<low_pass_filter(velocity, CutoffPeriodMs, 0, DtMs), FALSE>>
    ELSE IF Branch(floor_contact, a_plan) = "hold"
      THEN <<velocity, FALSE>>
    ELSE clamp_and_warn(Integrate(velocity, a_plan.first_input, DtMs), Lower, Upper)

\* np.empty((n,)) if n > 0 else None: an array is its size and the entries
\* written so far (a function from the written indexes).
NewArray(n) == IF n > 0 THEN [is_none |-> FALSE, size |-> n, data |-> <<>>] ELSE None

\* A store that always writes the first entry.
Store_first(array, index, value) ==
    [array EXCEPT !.data = [i \in (DOMAIN @) \cup {0} |->
                               IF i = 0 THEN value ELSE @[i]]]

\* array[index] = value
Store(array, index, value) ==
    [array EXCEPT !.data = [i \in (DOMAIN @) \cup {index} |->
                               IF i = index THEN value ELSE @[i]]]

VARIABLES
    available,              \* backends whose import succeeded
    args_solver,            \* args.solver ("" before the command line is parsed)
    rebuild_qp_every_time,  \* gin configuration of balance()
    warm_start,             \* gin configuration of balance()
    nb_env_steps,           \* gin configuration of balance(): the step budget
    pc,                     \* position of the program
    workspace,              \* the Workspace of balance()
    mpc_qp,                 \* the MPCQP: its shape, G, h and cost vector q
    commanded_velocity,
    action0,                \* action[0]
    step,
    planning_times,
    base_pitches,
    observation,            \* [base_pitch, origin]: origin is the call that returned it
    info,                   \* [floor_contact, origin]
    floor_contact,          \* spine_observation["floor_contact"]["contact"]
    terminated,
    truncated,
    plan,
    env,                    \* the environment: the action of its last step()
    trace                   \* history of the run, read by the properties only

vars == <<available, args_solver, rebuild_qp_every_time, warm_start, nb_env_steps,
          pc, workspace, mpc_qp, commanded_velocity, action0, step,
          planning_times, base_pitches, observation, info, floor_contact,
          terminated, truncated, plan, env, trace>>

config == <<available, rebuild_qp_every_time, warm_start, nb_env_steps>>

\* The variables of the control loop.
loop_vars == <<commanded_velocity, action0, step, planning_times, base_pitches,
               observation, info, floor_contact, terminated, truncated, plan,
               env>>

\* What the properties read of the past of a run.
InitTrace ==
    [nb_workspaces |-> 0,       \* workspaces constructed
     init_solves |-> 0,         \* solves run by the workspace constructor
     init_call |-> None,        \* the model the ProxQP constructor handed to init()
     cycles |-> 0,              \* cycles completed
     dispatched |-> 0,          \* env.step calls
     velocity_before |-> 0,     \* commanded velocity before the command update
     branch |-> "none",         \* branch of the last command update
     warned |-> FALSE,          \* the last command update logged a clamp warning
     last_end_velocity |-> 0,   \* commanded velocity at the end of the last cycle
     nominal |-> TRUE,          \* floor contact and a found plan in every cycle so far
     no_contact |-> TRUE,       \* no floor contact in any cycle so far
     all_actuate |-> TRUE,      \* every command update so far took "actuate"
     status |-> "none",         \* backend status of the last Workspace.solve
     qpsol |-> None]            \* Solution the last Workspace.solve returned

\* The locals of a cycle before its first assignment to them.
NoObservation == [base_pitch |-> 0, origin |-> "none"]
NoInfo == [floor_contact |-> FALSE, origin |-> "none"]
NoPlan == [is_empty |-> TRUE, first_input |-> 0]

Init ==
    /\ available \in AvailableSets
    /\ args_solver = ""
    /\ rebuild_qp_every_time \in BOOLEAN
    /\ warm_start \in BOOLEAN
    /\ nb_env_steps \in 0..MaxSteps
    /\ pc = "main"
    /\ workspace = NoWorkspace
    /\ mpc_qp = None
    /\ commanded_velocity = 0
    /\ action0 = 0
    /\ step = 0
    /\ planning_times = None
    /\ base_pitches = None
    /\ observation = NoObservation
    /\ info = NoInfo
    /\ floor_contact = FALSE
    /\ terminated = FALSE
    /\ truncated = FALSE
    /\ plan = NoPlan
    /\ env = [action |-> 0]
    /\ trace = InitTrace

\* parse_command_line_arguments(): --solver is required and must be one of
\* the choices; argparse exits on any other value.
ParseArguments ==
    /\ pc = "main"
    /\ \E requested \in Backends :
         IF requested \in ChoiceSet(available)
           THEN /\ args_solver' = requested
                /\ pc' = "balance"
           ELSE /\ pc' = "usage_error"
                /\ UNCHANGED args_solver
    /\ UNCHANGED <<config, workspace, mpc_qp, commanded_velocity, action0, step,
                   planning_times, base_pitches, observation, info, floor_contact,
                   terminated, truncated, plan, env, trace>>

\* The workspace balance() constructs for a solver, given what the solve of
\* the constructor (if it runs one) ends with.
NewWorkspace(solver, a_mpc_qp, status, x, y) ==
    IF WorkspaceClass(solver) = "QPALMWorkspace"
      THEN QPALMWorkspace_init(a_mpc_qp, status, x, y)
    ELSE IF WorkspaceClass(solver) = "HPIPMWorkspace"
      THEN HPIPMWorkspace_init(a_mpc_qp)
    ELSE ProxQPWorkspace_init(a_mpc_qp, status, x)

\* What the constructor of a workspace handed to proxqp's solver.init().
InitCall(a_workspace) ==
    IF a_workspace.kind = "ProxQPWorkspace"
      THEN [is_none |-> FALSE, model |-> a_workspace.solver.model]
      ELSE None

\* balance() up to the loop: the MPC problem with a zero initial state, the
\* workspace, env.reset(), a zero command, the telemetry arrays.  The first QP
\* has a zero initial state and zero targets: a constructor that solves it
\* ends with any status and the zero input.
Setup ==
    /\ pc = "balance"
    /\ mpc_qp' = PendulumQP(Horizon, 0)
    /\ \E status \in StatusesOf(WorkspaceClass(args_solver)) :
         /\ workspace' = NewWorkspace(args_solver, mpc_qp', status, 0, 0)
         /\ trace' = [trace EXCEPT !.nb_workspaces = @ + 1,
                                   !.init_solves = workspace'.solver.nb_solves,
                                   !.init_call = InitCall(workspace')]
    \* env.reset(): its results are dropped
    /\ UNCHANGED <<observation, info, floor_contact>>
    /\ commanded_velocity' = 0
    /\ action0' = 0
    /\ planning_times' = NewArray(nb_env_steps)
    /\ base_pitches' = NewArray(nb_env_steps)
    /\ step' = 0
    /\ pc' = "loop"
    /\ UNCHANGED <<config, args_solver, terminated, truncated, plan, env>>

\* A loop that leaves the action as it was.
SetAction0_stale(action_0, velocity) == action_0

\* action[0] = commanded_velocity
SetAction0(action_0, velocity) == velocity

\* A reset only when both signals are raised.
ResetNeeded_both(is_terminated, is_truncated) == is_terminated /\ is_truncated

\* if terminated or truncated:
ResetNeeded(is_terminated, is_truncated) == is_terminated \/ is_truncated

\* Top of a cycle: action[0] = commanded_velocity, env.step(action), and on
\* terminated or truncated env.reset(), whose observation and info replace
\* those of the step, and a zero command; then the MPC problem takes the
\* observation as its initial state.
EnvStep ==
    /\ pc = "loop"
    /\ nb_env_steps > 0 \/ trace.cycles < MaxCycles
    /\ action0' = SetAction0(action0, commanded_velocity)
    /\ env' = [env EXCEPT !.action = action0']
    /\ \E is_terminated \in BOOLEAN, is_truncated \in BOOLEAN :
         /\ terminated' = is_terminated
         /\ truncated' = is_truncated
         /\ IF ResetNeeded(is_terminated, is_truncated)
              THEN /\ \E pitch \in PitchSet, contact \in BOOLEAN :
                        /\ observation' = [base_pitch |-> pitch, origin |-> "reset"]
                        /\ info' = [floor_contact |-> contact, origin |-> "reset"]
                   /\ commanded_velocity' = 0
              ELSE /\ \E pitch \in PitchSet, contact \in BOOLEAN :
                        /\ observation' = [base_pitch |-> pitch, origin |-> "step"]
                        /\ info' = [floor_contact |-> contact, origin |-> "step"]
                   /\ UNCHANGED commanded_velocity
    /\ floor_contact' = info'.floor_contact
    /\ trace' = [trace EXCEPT !.dispatched = @ + 1,
                              !.no_contact = @ /\ ~floor_contact']
    /\ pc' = "plan"
    /\ UNCHANGED <<config, args_solver, workspace, mpc_qp, step, planning_times,
                   base_pitches, plan>>

\* if nb_env_steps > 0: base_pitches[step] = ...; planning_times[step] = ...
Record ==
    IF nb_env_steps > 0
      THEN /\ base_pitches' = Store(base_pitches, step, observation.base_pitch)
           /\ planning_times' = Store(planning_times, step, 1)
      ELSE UNCHANGED <<base_pitches, planning_times>>

\* After the planning step nothing reads the observation, info, terminated
\* or truncated of the cycle: the model forgets them.
Forget ==
    /\ observation' = NoObservation
    /\ info' = NoInfo
    /\ terminated' = FALSE
    /\ truncated' = FALSE

\* The plans of the one-off solves (solve_mpc, solve_problem): found with any
\* first input, or empty.
Plans == {Plan([found |-> found, x |-> x]) : found \in BOOLEAN, x \in AccelSet}

\* An entry point chosen by the warm-start flag first.
EntryPoint_warm_first(rebuild, warm) ==
    IF warm THEN "workspace.solve"
    ELSE IF rebuild THEN "solve_mpc"
    ELSE "solve_problem"

\* The solve a cycle runs: solve_mpc if rebuild_qp_every_time, else
\* workspace.solve if warm_start, else solve_problem.
EntryPoint(rebuild, warm) ==
    IF rebuild THEN "solve_mpc"
    ELSE IF warm THEN "workspace.solve"
    ELSE "solve_problem"

\* An assertion that any backend passes.
AssertProxQP_off(solver) == TRUE

\* assert args.solver == "proxqp"
AssertProxQP(solver) == solver = "proxqp"

\* rebuild_qp_every_time with proxqp: solve_mpc builds and solves a new QP.
SolveRebuild ==
    /\ pc = "plan"
    /\ EntryPoint(rebuild_qp_every_time, warm_start) = "solve_mpc"
    /\ AssertProxQP(args_solver)
    /\ \E a_plan \in Plans : plan' = a_plan
    /\ Record
    /\ trace' = [trace EXCEPT !.nominal = @ /\ floor_contact /\ ~plan'.is_empty]
    /\ Forget
    /\ pc' = "update"
    /\ UNCHANGED <<config, args_solver, workspace, mpc_qp, commanded_velocity,
                   action0, step, floor_contact, env>>

\* The cost vector is refreshed and workspace.solve(mpc_qp) runs; the solve
\* ends with any status of the backend and any first input (the dual of
\* QPALM is not told apart: it is 0).
SolveWarm ==
    /\ pc = "plan"
    /\ EntryPoint(rebuild_qp_every_time, warm_start) = "workspace.solve"
    /\ mpc_qp' = update_cost_vector(mpc_qp, observation.base_pitch)
    /\ \E status \in StatusesOf(workspace.kind), x \in AccelSet :
         LET result == Workspace_solve(workspace, mpc_qp', status, x, 0)
         IN  /\ workspace' = result.workspace
             /\ plan' = Plan(result.qpsol)
             /\ trace' = [trace EXCEPT !.nominal = @ /\ floor_contact /\ ~plan'.is_empty,
                                       !.status = status,
                                       !.qpsol = [is_none |-> FALSE,
                                                  found |-> result.qpsol.found,
                                                  x |-> result.qpsol.x,
                                                  size |-> result.qpsol.size]]
    /\ Record
    /\ Forget
    /\ pc' = "update"
    /\ UNCHANGED <<config, args_solver, commanded_velocity, action0, step,
                   floor_contact, env>>

\* The cost vector is refreshed and, with proxqp, solve_problem solves the QP
\* without the workspace.
SolveCold ==
    /\ pc = "plan"
    /\ EntryPoint(rebuild_qp_every_time, warm_start) = "solve_problem"
    /\ AssertProxQP(args_solver)
    /\ mpc_qp' = update_cost_vector(mpc_qp, observation.base_pitch)
    /\ \E a_plan \in Plans : plan' = a_plan
    /\ Record
    /\ trace' = [trace EXCEPT !.nominal = @ /\ floor_contact /\ ~plan'.is_empty]
    /\ Forget
    /\ pc' = "update"
    /\ UNCHANGED <<config, args_solver, workspace, commanded_velocity, action0,
                   step, floor_contact, env>>

\* assert args.solver == "proxqp" fails: on the rebuild path before anything
\* else, on the cold path after the cost vector is refreshed.
AssertionFails ==
    /\ pc = "plan"
    /\ ~AssertProxQP(args_solver)
    /\ \/ /\ EntryPoint(rebuild_qp_every_time, warm_start) = "solve_mpc"
          /\ UNCHANGED mpc_qp
       \/ /\ EntryPoint(rebuild_qp_every_time, warm_start) = "solve_problem"
          /\ mpc_qp' = update_cost_vector(mpc_qp, observation.base_pitch)
    /\ pc' = "aborted"
    /\ UNCHANGED <<config, args_solver, workspace, commanded_velocity, action0,
                   step, planning_times, base_pitches, observation, info,
                   floor_contact, terminated, truncated, plan, env, trace>>

\* The command update: low-pass deceleration without floor contact, nothing
\* with an empty plan, else the first input integrated and clamped.
UpdateCommand ==
    /\ pc = "update"
    /\ commanded_velocity' =
         UpdatedCommand(commanded_velocity, floor_contact, plan)[1]
    /\ trace' = [trace EXCEPT
         !.velocity_before = commanded_velocity,
         !.branch = Branch(floor_contact, plan),
         !.warned = UpdatedCommand(commanded_velocity, floor_contact, plan)[2],
         !.all_actuate = @ /\ Branch(floor_contact, plan) = "actuate"]
    /\ pc' = "count"
    /\ UNCHANGED <<config, args_solver, workspace, mpc_qp, action0, step,
                   planning_times, base_pitches, observation, info, floor_contact,
                   terminated, truncated, plan, env>>

\* A loop that counts its steps whatever the budget.
Counted_always(budget) == TRUE

\* if nb_env_steps > 0: the steps of a run with a budget are counted.
Counted(budget) == budget > 0

\* An exit test that lets one more cycle run.
BudgetReached_late(steps, budget) == steps > budget

\* if step >= nb_env_steps: break
BudgetReached(steps, budget) == steps >= budget

\* End of a cycle: with a step budget the step is counted and the loop ends
\* when the budget is reached.  The contact flag and the plan of the cycle
\* are dead here, the next cycle assigns them before it reads them: the model
\* forgets them.
CountStep ==
    /\ pc = "count"
    /\ IF Counted(nb_env_steps)
         THEN /\ step' = step + 1
              /\ pc' = IF BudgetReached(step', nb_env_steps) THEN "done" ELSE "loop"
         ELSE /\ UNCHANGED step
              /\ pc' = "loop"
    /\ floor_contact' = FALSE
    /\ plan' = NoPlan
    /\ trace' = [trace EXCEPT !.cycles = @ + 1,
                              !.velocity_before = 0,
                              !.branch = "none",
                              !.warned = FALSE,
                              !.last_end_velocity = commanded_velocity]
    /\ UNCHANGED <<config, args_solver, workspace, mpc_qp, commanded_velocity,
                   action0, planning_times, base_pitches, observation, info,
                   terminated, truncated, env>>

\* After the loop: report(planning_times, base_pitches) and the two np.save.
Report ==
    /\ pc = "done"
    /\ pc' = "reported"
    /\ UNCHANGED <<config, args_solver, workspace, mpc_qp, loop_vars, trace>>

Next ==
    \/ ParseArguments
    \/ Setup
    \/ EnvStep
    \/ SolveRebuild
    \/ SolveWarm
    \/ SolveCold
    \/ AssertionFails
    \/ UpdateCommand
    \/ CountStep
    \/ Report

Spec == Init /\ [][Next]_vars

\* ------------------------------------------------ the workspaces on their own
\* A workspace class is configurable on its own: here one is built from any
\* small MPCQP and solved repeatedly with only the cost vector changed.

\* Largest number of decision variables (n) of an MPCQP.
MaxVars == 2
\* Largest number of inequality rows (m) of an MPCQP.
MaxRows == 3
\* Calls of Workspace.solve explored on one workspace.
MaxSolves == 2

\* Entries of h, first inputs and duals of a solve.
BoundSet == {1, 2}
InputSet == {0, AccelQuantum}
DualSet == {0, 1}

\* The MPCQPs of n variables and m rows; row i of G is labelled i.
MPCQPs ==
    UNION {{MPCQP(n, [i \in 1..m |-> i], h, q) :
              n \in 1..MaxVars, h \in [1..m -> BoundSet], q \in PitchSet} :
           m \in 0..MaxRows}

InitWorkspace ==
    /\ available = Backends
    /\ args_solver \in Backends
    /\ rebuild_qp_every_time = FALSE
    /\ warm_start = TRUE
    /\ nb_env_steps = 0
    /\ pc = "construct"
    /\ workspace = NoWorkspace
    /\ mpc_qp \in MPCQPs
    /\ commanded_velocity = 0
    /\ action0 = 0
    /\ step = 0
    /\ planning_times = None
    /\ base_pitches = None
    /\ observation = NoObservation
    /\ info = NoInfo
    /\ floor_contact = FALSE
    /\ terminated = FALSE
    /\ truncated = FALSE
    /\ plan = NoPlan
    /\ env = [action |-> 0]
    /\ trace = InitTrace

\* The arrays of the box form have the row count the solver was sized for.
RowsAgree(model) ==
    /\ Len(model.C) = model.n_in
    /\ Len(model.l) = model.n_in
    /\ Len(model.u) = model.n_in

\* WorkspaceClass(mpc_qp) returns: the constructor ran to its end, its solve
\* (if it runs one) having ended with any status, input and dual.
Construct ==
    /\ pc = "construct"
    /\ \E status \in StatusesOf(WorkspaceClass(args_solver)),
          x \in InputSet, y \in DualSet :
         /\ workspace' = NewWorkspace(args_solver, mpc_qp, status, x, y)
         /\ trace' = [trace EXCEPT !.nb_workspaces = @ + 1,
                                   !.init_solves = workspace'.solver.nb_solves,
                                   !.init_call = InitCall(workspace')]
    /\ pc' = "solve"
    /\ UNCHANGED <<config, args_solver, mpc_qp, loop_vars>>

\* ProxQPWorkspace(mpc_qp) raises: the constructor has no test of its own, but
\* the library may refuse, in solver.init(), arrays whose row counts differ
\* from n_in.
ConstructRaises ==
    /\ pc = "construct"
    /\ WorkspaceClass(args_solver) = "ProxQPWorkspace"
    /\ ~RowsAgree(ProxQPWorkspace_model(mpc_qp))
    /\ trace' = [trace EXCEPT
                   !.init_call = [is_none |-> FALSE,
                                  model |-> ProxQPWorkspace_model(mpc_qp)]]
    /\ pc' = "raised"
    /\ UNCHANGED <<config, args_solver, workspace, mpc_qp, loop_vars>>

\* mpc_qp.update_cost_vector(...) with any state, then workspace.solve(mpc_qp).
Solve ==
    /\ pc = "solve"
    /\ trace.cycles < MaxSolves
    /\ \E q \in PitchSet, status \in StatusesOf(workspace.kind),
          x \in InputSet, y \in DualSet :
         /\ mpc_qp' = update_cost_vector(mpc_qp, q)
         /\ LET result == Workspace_solve(workspace, mpc_qp', status, x, y)
            IN  /\ workspace' = result.workspace
                /\ trace' = [trace EXCEPT !.cycles = @ + 1,
                                          !.status = status,
                                          !.qpsol = [is_none |-> FALSE,
                                                     found |-> result.qpsol.found,
                                                     x |-> result.qpsol.x,
                                                     size |-> result.qpsol.size]]
    /\ UNCHANGED <<config, args_solver, pc, loop_vars>>

NextWorkspace ==
    \/ Construct
    \/ ConstructRaises
    \/ Solve

WorkspaceSpec == InitWorkspace /\ [][NextWorkspace]_vars

\* ------------------------------------------- the deceleration on its own
\* The command update of a cycle without floor contact, applied cycle after
\* cycle to any commanded velocity of [-1.0, +1.0], on a grid finer than
\* that of the loop.

\* Velocity quanta per 1.0 m/s of this grid.
FilterScale == 400
\* Cycles without floor contact explored.
SettleCycles == 70

InitFilter ==
    /\ available = Backends
    /\ args_solver = "proxqp"
    /\ rebuild_qp_every_time = TRUE
    /\ warm_start = FALSE
    /\ nb_env_steps = 0
    /\ pc = "filter"
    /\ workspace = NoWorkspace
    /\ mpc_qp = None
    /\ commanded_velocity \in (-FilterScale)..FilterScale
    /\ action0 = 0
    /\ step = 0
    /\ planning_times = None
    /\ base_pitches = None
    /\ observation = NoObservation
    /\ info = NoInfo
    /\ floor_contact = FALSE
    /\ terminated = FALSE
    /\ truncated = FALSE
    /\ plan = NoPlan
    /\ env = [action |-> 0]
    /\ trace = InitTrace

\* One cycle without floor contact: whatever the plan, the commanded velocity
\* takes a low-pass step towards zero.
Decelerate ==
    /\ pc = "filter"
    /\ step < SettleCycles
    /\ \E a_plan \in Plans :
         /\ commanded_velocity' = UpdatedCommand(commanded_velocity, FALSE, a_plan)[1]
         /\ trace' = [trace EXCEPT !.velocity_before = commanded_velocity,
                                   !.branch = Branch(FALSE, a_plan),
                                   !.cycles = @ + 1]
    /\ step' = step + 1
    /\ UNCHANGED <<config, args_solver, pc, workspace, mpc_qp, action0,
                   planning_times, base_pitches, observation, info,
                   floor_contact, terminated, truncated, plan, env>>

NextFilter == Decelerate

FilterSpec == InitFilter /\ [][NextFilter]_vars

\* ------------------------------------------------------------- properties

\* The indexes of an array that were written.
Written(array) == IF array.is_none THEN {} ELSE DOMAIN array.data

\* C1: in every reachable state the commanded velocity lies in [-1.0, +1.0]
\* (at the start, after a reset, after a deceleration step, after a held
\* cycle and after an integration step), and so does the command handed to
\* the environment.
C1_VelocityInRange ==
    /\ Lower <= commanded_velocity /\ commanded_velocity <= Upper
    /\ Lower <= env.action /\ env.action <= Upper

\* C1 witness: an integration step went beyond +1.0 and was clamped to it.
C1_Witness ==
    /\ pc = "count"
    /\ trace.branch = "actuate"
    /\ Integrate(trace.velocity_before, plan.first_input, DtMs) > Upper
    /\ commanded_velocity = Upper

\* C2: in a cycle with no floor contact and an empty plan the command update
\* takes the deceleration branch, not the hold branch: the commanded velocity
\* is the low-pass step of the velocity before the update.
C2_ContactTestFirst ==
    (pc = "count" /\ ~floor_contact /\ plan.is_empty)
        => /\ trace.branch = "decelerate"
           /\ commanded_velocity =
                low_pass_filter(trace.velocity_before, CutoffPeriodMs, 0, DtMs)

\* C2 witness: no contact, no solution, and the deceleration changed a
\* nonzero command (a hold would have kept it).
C2_Witness ==
    /\ pc = "count"
    /\ ~floor_contact
    /\ plan.is_empty
    /\ trace.velocity_before # 0
    /\ commanded_velocity # trace.velocity_before

\* C3: in a cycle with floor contact and an empty plan the commanded velocity
\* after the command update is the one before it (no integration, no filter,
\* no clamp), and the cycle goes on to its end-of-cycle step.
C3_HoldOnFailure ==
    (pc = "count" /\ floor_contact /\ plan.is_empty)
        => /\ trace.branch = "hold"
           /\ commanded_velocity = trace.velocity_before
           /\ ~trace.warned
           /\ ENABLED CountStep

\* C3 witness: a held cycle with a command the filter would have changed.
C3_Witness ==
    /\ pc = "count"
    /\ floor_contact
    /\ plan.is_empty
    /\ commanded_velocity = trace.velocity_before
    /\ low_pass_filter(commanded_velocity, CutoffPeriodMs, 0, DtMs) # commanded_velocity

\* C4: while floor contact has been false in every cycle so far, each command
\* update leaves a velocity of strictly smaller magnitude, or zero if it was
\* zero, and the velocity it leaves is the same for every plan the solver
\* could have returned.
C4_DecelerateWithoutContact ==
    /\ (pc = "count" /\ trace.no_contact)
         => \/ Abs(commanded_velocity) < Abs(trace.velocity_before)
            \/ trace.velocity_before = 0 /\ commanded_velocity = 0
    /\ (pc = "update" /\ trace.no_contact)
         => \A p1 \in Plans, p2 \in Plans :
              UpdatedCommand(commanded_velocity, floor_contact, p1)[1]
                = UpdatedCommand(commanded_velocity, floor_contact, p2)[1]

\* C4 witness: the second cycle without contact, with a solution whose first
\* input is not zero.
C4_Witness ==
    /\ pc = "count"
    /\ trace.no_contact
    /\ trace.cycles >= 1
    /\ ~plan.is_empty
    /\ plan.first_input # 0

\* C5: with a step budget N > 0, floor contact in every cycle and every plan
\* found, every command update takes the actuate branch, each cycle writes the
\* pitch and latency entry of its own index, and the loop ends after exactly N
\* cycles with the entries 0..N-1 of both arrays written.
C5_FullRun ==
    (nb_env_steps > 0 /\ trace.nominal)
        => /\ trace.all_actuate
           /\ pc = "count" => trace.branch = "actuate"
           /\ pc \in {"update", "count"}
                => /\ Written(base_pitches) = 0..step
                   /\ Written(planning_times) = 0..step
           /\ pc \in {"loop", "plan"}
                => /\ Written(base_pitches) = 0..(step - 1)
                   /\ Written(planning_times) = 0..(step - 1)
           /\ pc = "done"
                => /\ trace.cycles = nb_env_steps
                   /\ step = nb_env_steps
                   /\ base_pitches.size = nb_env_steps
                   /\ planning_times.size = nb_env_steps
                   /\ Written(base_pitches) = 0..(nb_env_steps - 1)
                   /\ Written(planning_times) = 0..(nb_env_steps - 1)

\* C5 witness: a run of the largest budget ended with contact and a found
\* plan in every cycle.
C5_Witness ==
    /\ pc = "done"
    /\ nb_env_steps = MaxSteps
    /\ trace.nominal
    /\ trace.cycles = MaxSteps

\* C6: a terminated or truncated step does not end the loop: the environment
\* is reset, the commanded velocity is zero, the rest of the cycle runs on
\* the observation and the contact flag of the reset, the step counter is the
\* number of completed cycles (neither reset nor skipped), and the loop is
\* left only with a positive budget reached by the step counter.
C6_ResetContinues ==
    /\ pc = "plan"
         => /\ (terminated \/ truncated) <=> info.origin = "reset"
            /\ (terminated \/ truncated)
                 => /\ commanded_velocity = 0
                    /\ observation.origin = "reset"
    /\ (terminated \/ truncated) => pc # "done"
    /\ pc \in {"loop", "plan", "update", "count", "done"}
         => step = (IF nb_env_steps > 0 THEN trace.cycles ELSE 0)
    /\ pc = "done" => nb_env_steps > 0 /\ step = nb_env_steps
                      /\ trace.cycles = nb_env_steps

\* C6 witness: a later cycle in which the step only reported terminated,
\* after a nonzero command had been dispatched.
C6_Witness ==
    /\ pc = "plan"
    /\ terminated
    /\ ~truncated
    /\ trace.cycles >= 1
    /\ env.action # 0
    /\ commanded_velocity = 0

\* C7: the command the environment step of cycle k+1 receives is the
\* commanded velocity at the end of cycle k (0 in the first cycle), and each
\* cycle dispatches exactly one command.
C7_DispatchOrder ==
    /\ pc \in {"plan", "update", "count"}
         => /\ env.action = trace.last_end_velocity
            /\ action0 = trace.last_end_velocity
            /\ trace.dispatched = trace.cycles + 1
    /\ pc \in {"loop", "done"}
         => /\ trace.dispatched = trace.cycles
            /\ commanded_velocity = trace.last_end_velocity
    /\ trace.cycles = 0 => env.action = 0

\* C7 witness: a nonzero command of the previous cycle was dispatched, and
\* the reset of this cycle zeroed the commanded velocity only afterwards.
C7_Witness ==
    /\ pc = "plan"
    /\ trace.cycles >= 1
    /\ env.action # 0
    /\ env.action = trace.last_end_velocity
    /\ commanded_velocity # env.action

\* The solves the constructor of a workspace class runs.
InitSolves(kind) == IF kind = "HPIPMWorkspace" THEN 0 ELSE 1

\* C8 as stated: for every backend the workspace constructor performs exactly
\* one initial solve before the first cycle.
C8_Original ==
    pc \in {"loop", "plan", "update", "count", "done", "aborted"}
        => trace.init_solves = 1

\* C8 as amended: the ProxQP and QPALM constructors perform exactly one
\* initial solve before the first cycle, the HPIPM constructor performs none;
\* no cycle has run and no command was dispatched when the loop is entered.
C8_InitialSolve ==
    /\ pc \in {"loop", "plan", "update", "count", "done", "aborted"}
         => trace.init_solves = InitSolves(workspace.kind)
    /\ (pc = "loop" /\ trace.dispatched = 0)
         => /\ workspace.solver.nb_solves = InitSolves(workspace.kind)
            /\ trace.cycles = 0
    /\ pc \in {"main", "usage_error", "balance"} => trace.init_solves = 0

\* C8 witness: the loop is about to run its first cycle with a QPALM
\* workspace whose constructor solved once.
C8_Witness ==
    /\ pc = "loop"
    /\ trace.dispatched = 0
    /\ workspace.kind = "QPALMWorkspace"
    /\ workspace.solver.nb_solves = 1

\* C9: the selectable solvers are backends that are available; no workspace
\* exists before balance() builds one, and from the first cycle on exactly
\* one was constructed, of the class named by args.solver (qpalm ->
\* QPALMWorkspace, hpipm -> HPIPMWorkspace, proxqp -> ProxQPWorkspace).
C9_OneWorkspace ==
    /\ pc = "main"
         => \A imported \in SUBSET Backends : ChoiceSet(imported) \subseteq imported
    /\ pc \notin {"main", "usage_error"} => args_solver \in available
    /\ pc \in {"main", "usage_error", "balance"}
         => trace.nb_workspaces = 0 /\ workspace = NoWorkspace
    /\ pc \in {"loop", "plan", "update", "count", "done", "aborted"}
         => /\ trace.nb_workspaces = 1
            /\ args_solver = "qpalm" => workspace.kind = "QPALMWorkspace"
            /\ args_solver = "hpipm" => workspace.kind = "HPIPMWorkspace"
            /\ args_solver = "proxqp" => workspace.kind = "ProxQPWorkspace"

\* C9 witness: a run with hpipm as the only available backend, past its
\* first cycle.
C9_Witness ==
    /\ pc = "loop"
    /\ available = {"hpipm"}
    /\ args_solver = "hpipm"
    /\ workspace.kind = "HPIPMWorkspace"
    /\ trace.cycles >= 1

\* The decision vector the backend of a workspace holds after a solve.
SolverResult(a_workspace) ==
    IF a_workspace.kind = "HPIPMWorkspace" THEN a_workspace.sol.v
    ELSE a_workspace.solver.x

\* C10: Workspace.solve returns a Solution for every backend and status, and
\* the cycle goes on: found is true exactly when the status is the solved
\* status of the backend (PROXQP_SOLVED, "solved", 0), and the decision vector
\* of the backend is attached whether found or not.
C10_SolveReturns ==
    /\ (pc = "update" /\ ~rebuild_qp_every_time /\ warm_start)
         => ~trace.qpsol.is_none
    /\ ~trace.qpsol.is_none
         => /\ trace.qpsol.found <=>
                 IF workspace.kind = "ProxQPWorkspace"
                   THEN trace.status = PROXQP_SOLVED
                 ELSE IF workspace.kind = "QPALMWorkspace"
                   THEN trace.status = "solved"
                 ELSE trace.status = 0
            /\ trace.qpsol.x = SolverResult(workspace)
            /\ trace.qpsol.x \in AccelSet
            /\ pc # "aborted"
    /\ (pc = "update" /\ ~trace.qpsol.is_none)
         => plan.is_empty <=> ~trace.qpsol.found

\* C10 witness: Workspace.solve returned found = false with a decision vector
\* for the closest-feasible status of ProxQP, and the cycle went on.
C10_Witness ==
    /\ pc = "update"
    /\ workspace.kind = "ProxQPWorkspace"
    /\ ~trace.qpsol.is_none
    /\ trace.status = "PROXQP_SOLVED_CLOSEST_PRIMAL_FEASIBLE"
    /\ ~trace.qpsol.found
    /\ trace.qpsol.x # 0

\* The variable count and the inequality count a workspace reports.
ProblemDimension(a_workspace) ==
    IF a_workspace.kind = "ProxQPWorkspace"
      THEN <<a_workspace.solver.model.dim, a_workspace.solver.model.n_in>>
    ELSE IF a_workspace.kind = "QPALMWorkspace"
      THEN <<a_workspace.solver.n, a_workspace.solver.m>>
    ELSE <<a_workspace.dim.nv, a_workspace.dim.ng>>

\* The dimension the constructor of a workspace gives it for an MPCQP.
ConstructedDimension(kind, a_mpc_qp) ==
    IF kind = "ProxQPWorkspace" THEN <<a_mpc_qp.n, Len(a_mpc_qp.h) \div 2>>
    ELSE <<a_mpc_qp.n, Len(a_mpc_qp.h)>>

\* C11: a workspace built from an MPCQP of n variables and m rows keeps the
\* dimension it was constructed with through every solve that changes only
\* the cost vector, and every Solution returned carries a decision vector of
\* length n.
C11_DimensionKept ==
    /\ workspace.kind # "none"
         => ProblemDimension(workspace)
              = ConstructedDimension(workspace.kind, mpc_qp)
    /\ ~trace.qpsol.is_none => trace.qpsol.size = mpc_qp.n

C11_Witness ==
    /\ pc = "solve"
    /\ workspace.kind = "HPIPMWorkspace"
    /\ trace.cycles = MaxSolves
    /\ mpc_qp.q # 0
    /\ Len(mpc_qp.h) # mpc_qp.n
    /\ trace.qpsol.size = mpc_qp.n

\* C12: with a step budget of zero the loop is never left: whatever the
\* contact flags, the solver outcomes and the terminated/truncated signals,
\* the step counter stays at zero, the exit test is never met and the
\* reporting and saving after the loop are never reached; the end of a cycle
\* leads back to the top of the loop.
C12_NoExitWithoutBudget ==
    /\ nb_env_steps = 0
         => /\ pc \notin {"done", "reported"}
            /\ step = 0
            /\ planning_times = None
            /\ base_pitches = None
    /\ (nb_env_steps = 0 /\ pc = "count") => ENABLED CountStep
    /\ (nb_env_steps = 0 /\ pc = "loop" /\ trace.cycles < MaxCycles)
         => ENABLED EnvStep

\* C12 witness: an indefinite run is back at the top of the loop after
\* MaxCycles cycles, one of which was not nominal.
C12_Witness ==
    /\ nb_env_steps = 0
    /\ pc = "loop"
    /\ trace.cycles = MaxCycles
    /\ ~trace.nominal
    /\ commanded_velocity # 0

NbSolves(a_workspace) == a_workspace.solver.nb_solves

Integrated(v, a) == v + RoundDiv(a * DtMs, 2000)

C18_AssertionAborts ==
    /\ pc = "aborted"
         => /\ args_solver \in {"hpipm", "qpalm"}
            /\ rebuild_qp_every_time \/ ~warm_start
            /\ trace.dispatched = 1
            /\ trace.cycles = 0
            /\ env.action = 0
            /\ step = 0
            /\ Written(planning_times) = {}
            /\ Written(base_pitches) = {}
            /\ commanded_velocity = 0
            /\ NbSolves(workspace) = InitSolves(workspace.kind)
    /\ (args_solver \in {"hpipm", "qpalm"}
          /\ (rebuild_qp_every_time \/ ~warm_start))
         => /\ pc \notin {"update", "count", "done", "reported"}
            /\ pc = "plan" => trace.cycles = 0 /\ ENABLED AssertionFails
            /\ pc = "loop" => trace.cycles = 0
    /\ args_solver = "proxqp" => pc # "aborted"

\* C18 witness: a run with qpalm and neither flag on aborted in its first
\* cycle, after the cost vector was refreshed with the pitch observed.
C18_Witness ==
    /\ pc = "aborted"
    /\ args_solver = "qpalm"
    /\ ~rebuild_qp_every_time
    /\ ~warm_start
    /\ nb_env_steps > 0
    /\ trace.dispatched = 1
    /\ mpc_qp.q = 1

\* The x and y the QPALM solver of a workspace holds, as a warm-start seed.
LastSolution(a_workspace) ==
    [is_none |-> FALSE, x |-> a_workspace.solver.x, y |-> a_workspace.solver.y]

C17_EvenRows ==
    (~trace.init_call.is_none /\ Len(mpc_qp.h) % 2 = 0)
        => LET model == trace.init_call.model
           IN  /\ 2 * model.n_in = Len(mpc_qp.h)
               /\ RowsAgree(model)
               /\ \A i \in 0..(model.n_in - 1) :
                    /\ model.C[i + 1] = mpc_qp.G[2 * i + 1]
                    /\ model.u[i + 1] = mpc_qp.h[2 * i + 1]
                    /\ model.l[i + 1] = -mpc_qp.h[2 * i + 2]

FilterTolerance == CutoffPeriodMs \div (2 * DtMs)

\* C19: with the floor contact lost in every cycle, each low-pass step (zero
\* input, cutoff 0.1 s, one cycle duration) keeps the sign of the commanded
\* velocity and does not increase its magnitude, decreases it while it is
\* above the rounding tolerance, and after SettleCycles cycles it is within
\* that tolerance of zero and stays where it is, from any start in
\* [-1.0, +1.0].
C19_DecelerationSettles ==
    pc = "filter"
        => /\ step >= 1
                => /\ trace.branch = "decelerate"
                   /\ Abs(commanded_velocity) <= Abs(trace.velocity_before)
                   /\ commanded_velocity * trace.velocity_before >= 0
                   /\ Abs(trace.velocity_before) > FilterTolerance
                        => Abs(commanded_velocity) < Abs(trace.velocity_before)
           /\ step >= SettleCycles
                => /\ Abs(commanded_velocity) <= FilterTolerance
                   /\ low_pass_filter(commanded_velocity, CutoffPeriodMs, 0, DtMs)
                        = commanded_velocity

\* C19 witness: the last step of the longest descent brings the magnitude to
\* the tolerance.
C19_Witness ==
    /\ pc = "filter"
    /\ step = SettleCycles - 1
    /\ Abs(trace.velocity_before) = FilterTolerance + 1
    /\ Abs(commanded_velocity) = FilterTolerance

====
